---- MODULE Spec2Model ----
(***************************************************************************)
(* Model of the video-processing webhook service (src/app.py,              *)
(* src/utils.py, src/video_processor.py).                                   *)
(*                                                                         *)
(* Strings whose case or dots matter (file names, form values) are         *)
(* sequences of one-character strings, so that lower(), rsplit() and       *)
(* splitext() are computed and not assumed.  A generated uuid is a single  *)
(* token of such a sequence.                                               *)
(***************************************************************************)
EXTENDS Integers, Sequences, FiniteSets, TLC

(* ------------------------------ bounds --------------------------------- *)

\* number of request threads that can be in flight at once
NumReq == 2
\* number of uuids the service hands out in one behaviour
MaxJobs == 2

(* ------------------------------ strings -------------------------------- *)

UpperChars == <<"A","B","C","D","E","F","G","H","I","J","K","L","M",
                "N","O","P","Q","R","S","T","U","V","W","X","Y","Z">>
LowerChars == <<"a","b","c","d","e","f","g","h","i","j","k","l","m",
                "n","o","p","q","r","s","t","u","v","w","x","y","z">>

\* str.lower() on one character
LowerChar(c) ==
    IF \E i \in DOMAIN UpperChars : UpperChars[i] = c
    THEN LowerChars[CHOOSE i \in DOMAIN UpperChars : UpperChars[i] = c]
    ELSE c

\* str.lower()
Lower(s) == [i \in DOMAIN s |-> LowerChar(s[i])]

\* the positions of "." in s
Dots(s) == {i \in DOMAIN s : s[i] = "."}

\* the greatest element of a non-empty set of numbers
MaxOf(S) == CHOOSE x \in S : \A y \in S : y <= x

\* filename.rsplit('.', 1)[1]: the text after the last dot (s holds a dot)
RSplitExt(s) == SubSeq(s, MaxOf(Dots(s)) + 1, Len(s))

\* the literals of the source, as character sequences
s_mp4  == <<"m","p","4">>
s_avi  == <<"a","v","i">>
s_mov  == <<"m","o","v">>
s_webm == <<"w","e","b","m">>
s_mkv  == <<"m","k","v">>
s_flv  == <<"f","l","v">>
s_m4v  == <<"m","4","v">>
s_3gp  == <<"3","g","p">>
s_low    == <<"l","o","w">>
s_medium == <<"m","e","d","i","u","m">>
s_high   == <<"h","i","g","h">>
s_ultra  == <<"u","l","t","r","a">>
s_480p  == <<"4","8","0","p">>
s_720p  == <<"7","2","0","p">>
s_1080p == <<"1","0","8","0","p">>
s_1440p == <<"1","4","4","0","p">>
s_4k    == <<"4","k">>
s_true  == <<"t","r","u","e">>
s_false == <<"f","a","l","s","e">>

(* ------------------------------ utils.py ------------------------------- *)

ALLOWED_EXTENSIONS == {s_mp4, s_avi, s_mov, s_webm, s_mkv, s_flv, s_m4v, s_3gp}

\* a plausible slip: the text after the FIRST dot's segment is tested,
\* as filename.split('.')[1] would give
allowed_file_first_dot(filename) ==
    /\ filename # <<>>
    /\ Dots(filename) # {}
    /\ LET first == CHOOSE i \in Dots(filename) : \A j \in Dots(filename) : i <= j
           later == {j \in Dots(filename) : j > first}
           stop  == IF later = {} THEN Len(filename)
                    ELSE (CHOOSE j \in later : \A k \in later : j <= k) - 1
       IN  Lower(SubSeq(filename, first + 1, stop)) \in ALLOWED_EXTENSIONS

allowed_file(filename) ==
    /\ filename # <<>>
    /\ Dots(filename) # {}
    /\ Lower(RSplitExt(filename)) \in ALLOWED_EXTENSIONS

valid_formats     == {s_mp4, s_avi, s_mov, s_webm, s_mkv}
valid_qualities   == {s_low, s_medium, s_high, s_ultra}
valid_resolutions == {s_480p, s_720p, s_1080p, s_1440p, s_4k}

\* the value validate_request returns when the request is valid
None == "None"

\* request.form.get(key, default)
FormGet(form, key, default) == IF key \in DOMAIN form THEN form[key] ELSE default

\* a plausible slip: the quality and resolution checks are left out
validate_request_format_only(request) ==
    IF request.content_type = "" THEN "Content-Type header missing"
    ELSE IF request.content_type # "multipart/form-data"
    THEN "Content-Type must be multipart/form-data for file uploads"
    ELSE IF ~request.has_video THEN "No video file in request"
    ELSE IF "output_format" \in DOMAIN request.form
            /\ Lower(request.form["output_format"]) \notin valid_formats
    THEN "Invalid output format"
    ELSE None

validate_request(request) ==
    IF request.content_type = "" THEN "Content-Type header missing"
    ELSE IF request.content_type # "multipart/form-data"
    THEN "Content-Type must be multipart/form-data for file uploads"
    ELSE IF ~request.has_video THEN "No video file in request"
    ELSE IF "output_format" \in DOMAIN request.form
            /\ Lower(request.form["output_format"]) \notin valid_formats
    THEN "Invalid output format"
    ELSE IF "quality" \in DOMAIN request.form
            /\ Lower(request.form["quality"]) \notin valid_qualities
    THEN "Invalid quality setting"
    ELSE IF "resolution" \in DOMAIN request.form
            /\ Lower(request.form["resolution"]) \notin valid_resolutions
    THEN "Invalid resolution"
    ELSE None

(* -------------------------- video_processor.py -------------------------- *)

\* d[k] = v on a dict
Put(d, k, v) == [x \in DOMAIN d \cup {k} |-> IF x = k THEN v ELSE d[x]]

\* dict.get(k, default)
Get(d, k, default) == IF k \in DOMAIN d THEN d[k] ELSE default

\* {}
EmptyDict == [x \in {} |-> 0]

quality_presets ==
    [q \in {s_low, s_medium, s_high, s_ultra} |->
        IF q = s_low THEN [crf |-> 28, preset |-> "fast"]
        ELSE IF q = s_medium THEN [crf |-> 23, preset |-> "medium"]
        ELSE IF q = s_high THEN [crf |-> 18, preset |-> "slow"]
        ELSE [crf |-> 15, preset |-> "veryslow"]]

resolution_presets ==
    [p \in {s_480p, s_720p, s_1080p, s_1440p, s_4k} |->
        IF p = s_480p THEN "854:480"
        ELSE IF p = s_720p THEN "1280:720"
        ELSE IF p = s_1080p THEN "1920:1080"
        ELSE IF p = s_1440p THEN "2560:1440"
        ELSE "3840:2160"]

\* process_video, "Set video codec based on output format"
CodecArgs(output_format) ==
    IF output_format \in {s_mp4, s_mov}
    THEN Put(Put(EmptyDict, "vcodec", "libx264"), "acodec", "aac")
    ELSE IF output_format = s_webm
    THEN Put(Put(EmptyDict, "vcodec", "libvpx-vp9"), "acodec", "libvorbis")
    ELSE IF output_format = s_avi
    THEN Put(Put(EmptyDict, "vcodec", "libx264"), "acodec", "mp3")
    ELSE EmptyDict

\* process_video, "Apply quality settings"
QualityArgs(output_args, quality) ==
    IF quality \in DOMAIN quality_presets
    THEN Put(Put(output_args, "crf", quality_presets[quality].crf),
             "preset", quality_presets[quality].preset)
    ELSE output_args

\* process_video, "Apply resolution scaling if specified": the filters put
\* on the input stream; params.get('resolution') is <<>> when the field is
\* absent
ScaleFilter(resolution) ==
    IF resolution # <<>> /\ resolution \in DOMAIN resolution_presets
    THEN <<resolution_presets[resolution]>>
    ELSE <<>>

\* process_video, "Apply compression if requested"
CompressArgs(output_args, compress) ==
    IF compress
    THEN LET relaxed == Get(output_args, "crf", 23) + 5
         IN  Put(Put(output_args, "crf", IF relaxed < 32 THEN relaxed ELSE 32),
                 "preset", "fast")
    ELSE output_args

\* the invocation of the external tool that process_video builds
FfmpegCall(input, output_filename, params) ==
    [input  |-> input,
     filter |-> ScaleFilter(params.resolution),
     output |-> output_filename,
     args   |-> CompressArgs(
                    QualityArgs(CodecArgs(params.output_format), params.quality),
                    params.compress)]

(* ----------------- video_processor.py: extract_metadata ---------------- *)

\* the most streams a probed file holds
MaxStreams == 3

\* the decimal digits, "0" first
Digits == <<"0", "1", "2", "3", "4", "5", "6", "7", "8", "9">>

\* the value of a decimal digit
DigitValue(c) == (CHOOSE i \in DOMAIN Digits : Digits[i] = c) - 1

\* int(text) for a text of decimal digits, as ffprobe writes its numbers
RECURSIVE ParseInt(_)
ParseInt(s) ==
    IF s = <<>> THEN 0
    ELSE ParseInt(SubSeq(s, 1, Len(s) - 1)) * 10 + DigitValue(s[Len(s)])

\* float(text), in tenths: the texts of the model carry at most one decimal
ParseFloat(s) ==
    IF Dots(s) = {} THEN ParseInt(s) * 10
    ELSE LET d == MaxOf(Dots(s)) IN
         ParseInt(SubSeq(s, 1, d - 1)) * 10
            + (IF d < Len(s) THEN DigitValue(s[d + 1]) ELSE 0)

\* ffmpeg.probe raised (ffprobe failed on the file)
ProbeFailed == [ok |-> FALSE, format |-> EmptyDict, streams |-> <<>>]

\* the least element of a non-empty set of numbers
MinOf(S) == CHOOSE x \in S : \A y \in S : x <= y

\* a plausible slip: the loop keeps the last stream of the type
FirstStream_last(streams, codec_type) ==
    LET found == {i \in DOMAIN streams : streams[i].codec_type = codec_type}
    IN IF found = {} THEN <<>> ELSE <<streams[MaxOf(found)]>>

\* the loop over probe['streams']: the first stream of the type, if any
FirstStream(streams, codec_type) ==
    LET found == {i \in DOMAIN streams : streams[i].codec_type = codec_type}
    IN IF found = {} THEN <<>> ELSE <<streams[MinOf(found)]>>

\* int(d.get(key, 0))
GetInt(d, key) == IF key \in DOMAIN d THEN ParseInt(d[key]) ELSE 0

\* int(d.get('bit_rate', 0)) if d.get('bit_rate') else None
GetBitrate(d) ==
    IF "bit_rate" \in DOMAIN d /\ d["bit_rate"] # <<>>
    THEN <<ParseInt(d["bit_rate"])>> ELSE <<>>

\* extract_metadata: <<>> is None, <<metadata>> the dictionary returned.
\* exists is os.path.exists(file_path), probe what ffmpeg.probe gave.  The
\* keys kept are the format's duration, size and bit rate and each stream's
\* codec name and bit rate; width, height, fps, pixel format, sample rate
\* and channels are read with the same get-with-default and left out.
extract_metadata(exists, probe) ==
    IF ~exists THEN <<>>
    ELSE IF ~probe.ok THEN <<>>
    ELSE LET video_stream == FirstStream(probe.streams, "video")
             audio_stream == FirstStream(probe.streams, "audio")
             metadata ==
                [duration |-> IF "duration" \in DOMAIN probe.format
                              THEN ParseFloat(probe.format["duration"]) ELSE 0,
                 size     |-> GetInt(probe.format, "size"),
                 bitrate  |-> GetInt(probe.format, "bit_rate"),
                 video    |-> [codec   |-> Get(video_stream[1], "codec_name", ""),
                               bitrate |-> GetBitrate(video_stream[1])]]
         IN IF video_stream = <<>> THEN <<>>
            ELSE IF audio_stream = <<>> THEN <<metadata>>
            ELSE <<[duration |-> metadata.duration,
                    size     |-> metadata.size,
                    bitrate  |-> metadata.bitrate,
                    video    |-> metadata.video,
                    audio    |-> [codec   |-> Get(audio_stream[1], "codec_name", ""),
                                  bitrate |-> GetBitrate(audio_stream[1])]]>>

\* numbers as ffprobe writes them in its JSON: texts
n_0    == <<"0">>
n_120  == <<"1", "2", "0">>
n_1048 == <<"1", "0", "4", "8">>
n_800  == <<"8", "0", "0">>
t_7_5  == <<"7", ".", "5">>
t_12_0 == <<"1", "2", ".", "0">>
t_3    == <<"3">>

\* probe['format'] with the keys ffprobe wrote; <<>> for a key it left out
ProbeFormat(duration, size, bit_rate) ==
    LET given == [duration |-> duration, size |-> size, bit_rate |-> bit_rate]
    IN [k \in {x \in DOMAIN given : given[x] # <<>>} |-> given[k]]

ProbeFormats ==
    {ProbeFormat(duration, size, bit_rate) :
        duration \in {<<>>, t_7_5, t_12_0, t_3},
        size \in {<<>>, n_0, n_120, n_1048},
        bit_rate \in {<<>>, n_800}}

\* entries of probe['streams']
v_h264    == [codec_type |-> "video", codec_name |-> "h264", bit_rate |-> n_800]
v_vp9     == [codec_type |-> "video", codec_name |-> "vp9"]
v_unnamed == [codec_type |-> "video"]
a_aac     == [codec_type |-> "audio", codec_name |-> "aac"]
d_bin     == [codec_type |-> "data", codec_name |-> "bin_data"]

ProbeStreams == {v_h264, v_vp9, v_unnamed, a_aac, d_bin}

\* what ffmpeg.probe can give: an error, or a format and up to MaxStreams
\* streams, each with its codec_type
ProbeOutputs ==
    {ProbeFailed}
    \cup {[ok |-> TRUE, format |-> format, streams |-> streams] :
            format \in ProbeFormats,
            streams \in UNION {[1..n -> ProbeStreams] : n \in 0..MaxStreams}}

\* the two outcomes a request of the concurrent service meets
SampleProbes ==
    {ProbeFailed,
     [ok |-> TRUE, format |-> ProbeFormat(t_7_5, n_120, n_800),
      streams |-> <<v_h264, a_aac>>]}

(* ------------------------------- state --------------------------------- *)

VARIABLES
    uploads,      \* the names of the files in UPLOAD_FOLDER
    processed,    \* PROCESSED_FOLDER: file name |-> the job whose video it holds
    tmpScripts,   \* the script_<uuid>.sh files under /tmp
    videoSource,  \* /tmp/n8n/simple_video/final_output.mp4: <<>> when absent,
                  \* else <<the job whose script wrote it>>
    nextJob,      \* the next uuid uuid.uuid4() returns
    pc,           \* each request thread's position in its handler
    req,          \* the HTTP request of each thread that is in a handler
    job,          \* the unique_id of each thread that is in a handler
    last,         \* the request answered last: what its handler did, and
                  \* its response
    old,          \* the files whose age is above cleanup_old_files' max age
    served        \* the names GET /download/<name> has served so far

vars == <<uploads, processed, tmpScripts, videoSource, nextJob, pc, req, job, last,
          old, served>>

Threads == 1 .. NumReq

\* str(uuid.uuid4()): one token
Uuid(j) == "uuid" \o ToString(j)

NoRequest == [endpoint |-> "none"]

\* what a handler has done so far when it has done nothing
NoHistory ==
    [saved |-> FALSE, probes |-> 0, ffmpeg |-> <<>>, script_written |-> FALSE,
     ran |-> FALSE, returncode |-> 0, timed_out |-> FALSE, video_existed |-> FALSE,
     probe_output |-> <<>>]

NoneAnswered ==
    [request |-> NoRequest, job |-> 0, hist |-> NoHistory, status |-> 0,
     body |-> [x \in {} |-> 0]]

\* datetime.utcnow().isoformat(), not modelled further
Timestamp == "timestamp"

\* the {success: false, error, timestamp} body
ErrorBody(error) ==
    [success |-> FALSE, error |-> error, timestamp |-> Timestamp]

(* --------------------------- file-name helpers ------------------------- *)

\* s without its leading and trailing "." and "_" (secure_filename's final
\* strip; the characters of the modelled names are all ones it keeps)
RECURSIVE StripLeft(_)
StripLeft(s) ==
    IF s # <<>> /\ Head(s) \in {".", "_"} THEN StripLeft(Tail(s)) ELSE s

RECURSIVE StripRight(_)
StripRight(s) ==
    IF s # <<>> /\ s[Len(s)] \in {".", "_"}
    THEN StripRight(SubSeq(s, 1, Len(s) - 1)) ELSE s

secure_filename(filename) == StripRight(StripLeft(filename))

\* os.path.splitext(p)[0] for a name that does not start with a dot
SplitextName(p) ==
    IF Dots(p) = {} THEN p ELSE SubSeq(p, 1, MaxOf(Dots(p)) - 1)

\* os.path.splitext(p)[1]
SplitextExt(p) ==
    IF Dots(p) = {} THEN <<>> ELSE SubSeq(p, MaxOf(Dots(p)), Len(p))

\* f"{unique_id}_{name}{ext}"
UniqueFilename(j, filename) ==
    <<Uuid(j), "_">> \o SplitextName(secure_filename(filename))
                     \o SplitextExt(secure_filename(filename))

\* f"{name}_processed.{output_format}"
OutputFilename(filename, output_format) ==
    SplitextName(filename) \o <<"_processed", ".">> \o output_format

\* f"script_{unique_id}.sh"
ScriptFilename(j) == <<"script_", Uuid(j), ".", "s", "h">>

\* f"video_{unique_id}.mp4"
ProcessedVideoName(j) == <<"video_", Uuid(j), ".">> \o s_mp4

\* the files of a folder that carry the uuid of job j in their name
FilesOf(folder, j) == {f \in folder : \E i \in DOMAIN f : f[i] = Uuid(j)}

(* ------------------- app.py: POST /webhook/video/process --------------- *)

\* a free thread takes the request: the lowest one, threads being alike
Free(r) ==
    /\ pc[r] = "idle"
    /\ \A q \in Threads : q < r => pc[q] # "idle"

\* thread r answers (status, body) to request; h is what its handler did
Respond(r, request, j, h, status, body) ==
    /\ last' = [request |-> request, job |-> j, hist |-> h, status |-> status,
                body |-> body]
    /\ pc' = [pc EXCEPT ![r] = "idle"]
    /\ req' = [req EXCEPT ![r] = NoRequest]
    /\ job' = [job EXCEPT ![r] = 0]

\* thread r goes on in its handler, at position p, with the uuid it drew
Proceed(r, request, p) ==
    /\ pc' = [pc EXCEPT ![r] = p]
    /\ req' = [req EXCEPT ![r] = request]
    /\ job' = [job EXCEPT ![r] = nextJob]
    /\ nextJob' = nextJob + 1
    /\ UNCHANGED last

\* process_video_webhook up to file.save: validation, the file checks, the
\* unique name, the save
ProcessUpload(r, request) ==
    /\ Free(r)
    /\ request.endpoint = "process"
    /\ nextJob <= MaxJobs
    /\ LET validation_error == validate_request(request) IN
       IF validation_error # None
       THEN /\ Respond(r, request, 0, NoHistory, 400, ErrorBody(validation_error))
            /\ UNCHANGED <<uploads, nextJob>>
       ELSE IF ~request.has_video
       THEN /\ Respond(r, request, 0, NoHistory, 400,
                       ErrorBody("No video file provided"))
            /\ UNCHANGED <<uploads, nextJob>>
       ELSE IF request.filename = <<>>
       THEN /\ Respond(r, request, 0, NoHistory, 400, ErrorBody("No file selected"))
            /\ UNCHANGED <<uploads, nextJob>>
       ELSE IF ~allowed_file(request.filename)
       THEN /\ Respond(r, request, 0, NoHistory, 400,
                       ErrorBody("Invalid file format"))
            /\ UNCHANGED <<uploads, nextJob>>
       ELSE /\ uploads' = uploads \cup {UniqueFilename(nextJob, request.filename)}
            /\ Proceed(r, request, "saved")
    /\ UNCHANGED <<processed, tmpScripts, videoSource, old, served>>

\* processing_params of process_video_webhook
ProcessingParams(form) ==
    [output_format |-> FormGet(form, "output_format", s_mp4),
     quality       |-> FormGet(form, "quality", s_medium),
     resolution    |-> FormGet(form, "resolution", <<>>),
     compress      |-> Lower(FormGet(form, "compress", s_false)) = s_true]

\* a plausible slip: the original is not removed after a successful run
UploadsAfterSuccess_kept(folder, input) == folder

\* process_video, "Clean up original file"
UploadsAfterSuccess(folder, input) == folder \ {input}

\* a plausible slip: a failed run cleans its input up as well
UploadsAfterFailure_removed(folder, input) == folder \ {input}

\* process_video returning success False: the early return on no metadata
\* and the except clauses leave the upload folder as it is
UploadsAfterFailure(folder, input) == folder

\* the rest of process_video_webhook: process_video(unique_filename, params)
\* and the response.  probe_ok and ffmpeg_ok are the external tool's
\* outcomes; partial says whether a failed run left an output file behind.
ProcessVideo(r) ==
    /\ pc[r] = "saved"
    /\ req[r].endpoint = "process"
    /\ \E probe_ok \in BOOLEAN, ffmpeg_ok \in BOOLEAN, partial \in BOOLEAN :
        LET filename == UniqueFilename(job[r], req[r].filename)
            params == ProcessingParams(req[r].form)
            output_filename == OutputFilename(filename, params.output_format)
            call == FfmpegCall(filename, output_filename, params)
            saved == [NoHistory EXCEPT !.saved = TRUE]
            failure(error) == [success |-> FALSE, error |-> error,
                               job_id |-> job[r], timestamp |-> Timestamp]
        IN
        IF filename \notin uploads
        THEN /\ ~probe_ok /\ ~ffmpeg_ok /\ ~partial
             /\ Respond(r, req[r], job[r], saved, 500, failure("Input file not found"))
             /\ UNCHANGED <<uploads, processed>>
        ELSE IF ~probe_ok
        THEN /\ ~ffmpeg_ok /\ ~partial
             /\ Respond(r, req[r], job[r], [saved EXCEPT !.probes = 1], 500,
                        failure("Failed to extract video metadata"))
             /\ uploads' = UploadsAfterFailure(uploads, filename)
             /\ UNCHANGED processed
        ELSE IF ~ffmpeg_ok
        THEN /\ processed' = IF partial THEN Put(processed, output_filename, job[r])
                             ELSE processed
             /\ Respond(r, req[r], job[r],
                        [saved EXCEPT !.probes = 1, !.ffmpeg = <<call>>], 500,
                        failure("Video processing failed"))
             /\ uploads' = UploadsAfterFailure(uploads, filename)
        ELSE /\ ~partial
             /\ processed' = Put(processed, output_filename, job[r])
             /\ uploads' = UploadsAfterSuccess(uploads, filename)
             \* extract_metadata(output_filename) looks in the upload folder
             /\ Respond(r, req[r], job[r],
                    [saved EXCEPT
                        !.probes = IF output_filename \in uploads THEN 2 ELSE 1,
                        !.ffmpeg = <<call>>],
                    200,
                    [success |-> TRUE, job_id |-> job[r],
                     original_file |-> secure_filename(req[r].filename),
                     processed_file |-> output_filename,
                     metadata |-> "metadata", processing_time |-> "processing_time",
                     file_size_reduction |-> "file_size_reduction",
                     download_url |-> <<"/download/">> \o output_filename,
                     timestamp |-> Timestamp])
    /\ UNCHANGED <<tmpScripts, videoSource, nextJob, old, served>>

(* ------------------ app.py: POST /webhook/video/metadata --------------- *)

\* extract_metadata_webhook up to file.save
MetadataUpload(r, request) ==
    /\ Free(r)
    /\ request.endpoint = "metadata"
    /\ nextJob <= MaxJobs
    /\ IF ~request.has_video
       THEN /\ Respond(r, request, 0, NoHistory, 400,
                       ErrorBody("No video file provided"))
            /\ UNCHANGED <<uploads, nextJob>>
       ELSE IF request.filename = <<>> \/ ~allowed_file(request.filename)
       THEN /\ Respond(r, request, 0, NoHistory, 400,
                       ErrorBody("Invalid or missing video file"))
            /\ UNCHANGED <<uploads, nextJob>>
       ELSE /\ uploads' = uploads \cup {UniqueFilename(nextJob, request.filename)}
            /\ Proceed(r, request, "saved")
    /\ UNCHANGED <<processed, tmpScripts, videoSource, old, served>>

\* a plausible slip: the temporary upload is left in the folder
UploadsAfterExtract_kept(folder, input) == folder

\* extract_metadata_webhook, "Clean up uploaded file": os.remove(file_path)
UploadsAfterExtract(folder, input) == folder \ {input}

\* the rest of extract_metadata_webhook, ffmpeg.probe giving probe: the
\* extraction, os.remove, the response.  os.remove of a file that is gone
\* raises, and the handler's except answers.
MetadataRespond(r, probe) ==
    /\ pc[r] = "saved"
    /\ req[r].endpoint = "metadata"
    /\ LET filename == UniqueFilename(job[r], req[r].filename)
           exists == filename \in uploads
           metadata == extract_metadata(exists, probe)
           h == [NoHistory EXCEPT !.saved = TRUE,
                                  !.probes = IF exists THEN 1 ELSE 0,
                                  !.probe_output = IF exists THEN <<probe>> ELSE <<>>]
       IN
       IF ~exists
       THEN /\ UNCHANGED uploads
            /\ Respond(r, req[r], job[r], h, 500,
                       ErrorBody("Internal server error"))
       ELSE /\ uploads' = UploadsAfterExtract(uploads, filename)
            /\ IF metadata # <<>>
               THEN Respond(r, req[r], job[r], h, 200,
                            [success |-> TRUE, metadata |-> metadata[1],
                             original_file |-> secure_filename(req[r].filename),
                             timestamp |-> Timestamp])
               ELSE Respond(r, req[r], job[r], h, 500,
                            ErrorBody("Failed to extract video metadata"))
    /\ UNCHANGED <<processed, tmpScripts, videoSource, nextJob, old, served>>

\* the request of a concurrent service meets one of the sample outcomes
MetadataExtract(r) == \E probe \in SampleProbes : MetadataRespond(r, probe)

\* the request meets any probe output
MetadataProbe(r) ==
    /\ pc[r] = "saved"
    /\ \E probe \in ProbeOutputs : MetadataRespond(r, probe)

(* ---------------------- app.py: GET /download/<name> ------------------- *)

\* a plausible slip: a name is answered from what was served before
download_file_remembers_served(filename) ==
    IF filename \in DOMAIN processed \cup served THEN 200 ELSE 404

\* the status download_file answers for a name
download_file(filename) ==
    IF filename \in DOMAIN processed THEN 200 ELSE 404

\* a name no handler gives to a file
f_missing == <<"missing", ".">> \o s_mp4

\* the names a client may ask for: those of the files there are, those it
\* was served before, and one that never existed
DownloadNames == DOMAIN processed \cup served \cup {f_missing}

\* download_file: the file is sent as an attachment, or 404 is answered
Download(r, filename) ==
    /\ Free(r)
    /\ LET request == [endpoint |-> "download", filename |-> filename] IN
       IF download_file(filename) = 200
       THEN /\ Respond(r, request, 0, NoHistory, 200,
                       [attachment |-> filename,
                        content |-> Get(processed, filename, 0)])
            /\ served' = served \cup {filename}
       ELSE /\ Respond(r, request, 0, NoHistory, 404, ErrorBody("File not found"))
            /\ served' = served
    /\ UNCHANGED <<uploads, processed, tmpScripts, videoSource, nextJob, old>>

\* a client asks for one of the names
DownloadAny(r) == \E filename \in DownloadNames : Download(r, filename)

(* ------------- video_processor.py: cleanup_old_files ------------------- *)

\* the placeholder file cleanup_old_files never removes
gitkeep == <<".", "g", "i", "t", "k", "e", "e", "p">>

\* more than max_age_hours pass: every file there is now is older than that
TimePasses ==
    /\ old' = uploads \cup DOMAIN processed
    /\ old' # old
    /\ UNCHANGED <<uploads, processed, tmpScripts, videoSource, nextJob, pc, req,
                   job, last, served>>

\* the files cleanup_old_files leaves in a folder: .gitkeep and the files
\* that are not older than the max age
CleanedFolder(folder) == {f \in folder : f = gitkeep \/ f \notin old}

\* cleanup_old_files(max_age_hours), on both folders
Cleanup ==
    /\ uploads' = CleanedFolder(uploads)
    /\ processed' = [f \in CleanedFolder(DOMAIN processed) |-> processed[f]]
    /\ old' = old \ ((uploads \ uploads') \cup (DOMAIN processed \ DOMAIN processed'))
    /\ <<uploads', processed'>> # <<uploads, processed>>
    /\ UNCHANGED <<tmpScripts, videoSource, nextJob, pc, req, job, last, served>>

(* ------------------ app.py: POST /webhook/execute-script --------------- *)

\* execute_script_webhook up to subprocess.run: the JSON checks, the uuid,
\* the script file; bash is started
ScriptStart(r, request) ==
    /\ Free(r)
    /\ request.endpoint = "script"
    /\ nextJob <= MaxJobs
    /\ IF ~request.is_json
       THEN /\ Respond(r, request, 0, NoHistory, 400,
                       ErrorBody("Request must contain JSON data"))
            /\ UNCHANGED <<tmpScripts, nextJob>>
       ELSE IF ~request.has_script
       THEN /\ Respond(r, request, 0, NoHistory, 400,
                       ErrorBody("No script provided"))
            /\ UNCHANGED <<tmpScripts, nextJob>>
       ELSE /\ tmpScripts' = tmpScripts \cup {ScriptFilename(nextJob)}
            /\ Proceed(r, request, "spawned")
    /\ UNCHANGED <<uploads, processed, videoSource, old, served>>

\* the bash process of thread r runs the caller's script: it writes the
\* fixed output path or leaves it alone
ScriptProcess(r) ==
    /\ pc[r] = "spawned"
    /\ videoSource' =
          IF req[r].script.effect = "write" THEN <<job[r]>> ELSE videoSource
    /\ pc' = [pc EXCEPT ![r] = "acted"]
    /\ UNCHANGED <<uploads, processed, tmpScripts, nextJob, req, job, last, old, served>>

\* a plausible slip: the exit code is not looked at
ScriptStatus_ignores_returncode(returncode, video_exists) ==
    IF video_exists THEN 200 ELSE 500

\* the status execute_script_webhook answers once subprocess.run returned
ScriptStatus(returncode, video_exists) ==
    IF returncode = 0
    THEN IF video_exists THEN 200 ELSE 500
    ELSE 500

\* subprocess.run returns within the timeout: the script file is removed,
\* the fixed output path is looked at and copied, the response is sent
ScriptFinish(r) ==
    /\ pc[r] = "acted"
    /\ ~req[r].script.hangs
    /\ LET returncode == req[r].script.returncode
           status == ScriptStatus(returncode, videoSource # <<>>)
           h == [NoHistory EXCEPT !.script_written = TRUE, !.ran = TRUE,
                                  !.returncode = returncode,
                                  !.video_existed = (videoSource # <<>>)]
       IN
       /\ tmpScripts' = tmpScripts \ {ScriptFilename(job[r])}
       /\ IF status = 200
          THEN /\ processed' = Put(processed, ProcessedVideoName(job[r]),
                                   videoSource[1])
               /\ Respond(r, req[r], job[r], h, 200,
                      [success |-> TRUE, job_id |-> job[r], output |-> "stdout",
                       video_path |-> "/tmp/n8n/simple_video/final_output.mp4",
                       download_url |-> <<"/download/">> \o ProcessedVideoName(job[r]),
                       file_size_mb |-> "file_size_mb", timestamp |-> Timestamp])
          ELSE /\ processed' = processed
               /\ Respond(r, req[r], job[r], h, 500,
                      IF returncode = 0
                      THEN [success |-> FALSE,
                            error |-> "Script completed but no video file was created",
                            output |-> "stdout", stderr |-> "stderr",
                            timestamp |-> Timestamp]
                      ELSE [success |-> FALSE, error |-> "Script failed",
                            output |-> "stdout", error_output |-> "stderr",
                            timestamp |-> Timestamp])
    /\ UNCHANGED <<uploads, videoSource, nextJob, old, served>>

\* subprocess.run raises TimeoutExpired after 600 seconds: the handler jumps
\* to its except clause, past os.remove(script_path)
ScriptTimeout(r) ==
    /\ pc[r] \in {"spawned", "acted"}
    /\ req[r].script.hangs
    /\ Respond(r, req[r], job[r],
               [NoHistory EXCEPT !.script_written = TRUE, !.ran = (pc[r] = "acted"),
                                 !.timed_out = TRUE],
               500, ErrorBody("Script execution timed out (600 seconds)"))
    /\ UNCHANGED <<uploads, processed, tmpScripts, videoSource, nextJob, old, served>>

(* ------------------------------ requests ------------------------------- *)

\* file names a client may send
f_a_mp4     == <<"a", ".">> \o s_mp4
f_a_MP4     == <<"a", ".", "M", "P", "4">>
f_a_exe     == <<"a", ".", "e", "x", "e">>
f_a         == <<"a">>
f_dot_mkv   == <<".">> \o s_mkv
f_a_mp4_txt == <<"a", ".">> \o s_mp4 \o <<".", "t", "x", "t">>
f_a_dot     == <<"a", ".">>

Filenames ==
    {f_a_mp4, f_a_MP4, f_a_exe, f_a, f_dot_mkv, f_a_mp4_txt, f_a_dot, s_mp4, <<>>}

\* marks a form field the client leaves out
Absent == <<"absent">>

FormatValues ==
    valid_formats \cup {<<"M","P","4">>, <<"W","e","b","M">>, <<"g","i","f">>, Absent}
QualityValues ==
    valid_qualities \cup {<<"H","I","G","H">>, <<"L","o","w">>, <<"b","e","s","t">>, Absent}
ResolutionValues ==
    valid_resolutions \cup {<<"4","K">>, <<"7","2","0","P">>, <<"8","k">>, Absent}
CompressValues == {s_true, <<"T","r","u","e">>, s_false, Absent}

\* the multipart form with the given fields, each left out when Absent
Form(output_format, quality, resolution, compress) ==
    LET given == [output_format |-> output_format, quality |-> quality,
                  resolution |-> resolution, compress |-> compress]
    IN  [k \in {x \in DOMAIN given : given[x] # Absent} |-> given[k]]

UploadRequest(endpoint, content_type, has_video, filename, form) ==
    [endpoint |-> endpoint, content_type |-> content_type,
     has_video |-> has_video, filename |-> filename, form |-> form]

\* every form on an upload with an allowed and with a disallowed name, and
\* every name and content type with some forms
FormRequests ==
    {UploadRequest("process", "multipart/form-data", TRUE, fn, Form(f, q, rs, c)) :
        fn \in {f_a_mp4, f_a_exe}, f \in FormatValues, q \in QualityValues,
        rs \in ResolutionValues, c \in CompressValues}
    \cup
    {UploadRequest("process", ct, hv, fn, Form(f, q, Absent, Absent)) :
        ct \in {"", "application/json", "multipart/form-data"}, hv \in BOOLEAN,
        fn \in Filenames, f \in {s_mp4, <<"g","i","f">>, Absent},
        q \in {<<"b","e","s","t">>, Absent}}
    \cup
    {UploadRequest("metadata", ct, hv, fn, EmptyDict) :
        ct \in {"", "multipart/form-data"}, hv \in BOOLEAN, fn \in Filenames}

\* what a caller's script does: to the fixed output path, and how it ends
Scripts ==
    {[effect |-> e, returncode |-> rc, hangs |-> FALSE] :
        e \in {"write", "none"}, rc \in {0, 1}}
    \cup {[effect |-> e, returncode |-> 0, hangs |-> TRUE] : e \in {"write", "none"}}

ScriptRequests ==
    {[endpoint |-> "script", is_json |-> TRUE, has_script |-> TRUE, script |-> sc] :
        sc \in Scripts}
    \cup {[endpoint |-> "script", is_json |-> j, has_script |-> FALSE,
           script |-> [effect |-> "none", returncode |-> 0, hangs |-> FALSE]] :
            j \in BOOLEAN}

\* the requests of the concurrent specification
SampleRequests ==
    {UploadRequest("process", "multipart/form-data", TRUE, f_a_mp4, fm) :
        fm \in {EmptyDict, Form(s_webm, Absent, Absent, Absent)}}
    \cup {UploadRequest("process", "multipart/form-data", TRUE, f_a_exe, EmptyDict)}
    \cup {UploadRequest("metadata", "multipart/form-data", TRUE, fn, EmptyDict) :
            fn \in {f_a_mp4, f_a_exe}}
    \cup ScriptRequests

(* --------------------------- specifications ---------------------------- *)

\* the service after start-up: empty folders, no request in flight
Init ==
    /\ uploads = {}
    /\ processed = EmptyDict
    /\ tmpScripts = {}
    /\ videoSource = <<>>
    /\ nextJob = 1
    /\ pc = [r \in Threads |-> "idle"]
    /\ req = [r \in Threads |-> NoRequest]
    /\ job = [r \in Threads |-> 0]
    /\ last = NoneAnswered
    /\ old = {}
    /\ served = {}

\* requests arrive at any time and are handled by concurrent threads
Next ==
    \E r \in Threads :
        \/ \E request \in SampleRequests : ProcessUpload(r, request)
        \/ ProcessVideo(r)
        \/ \E request \in SampleRequests : MetadataUpload(r, request)
        \/ MetadataExtract(r)
        \/ \E request \in SampleRequests : ScriptStart(r, request)
        \/ ScriptProcess(r)
        \/ ScriptFinish(r)
        \/ ScriptTimeout(r)

Spec == Init /\ [][Next]_vars

\* no request was received yet
FirstRequest ==
    /\ last = NoneAnswered
    /\ \A q \in Threads : pc[q] = "idle"

\* the first request is a process request with any form
FirstProcessUpload(r) ==
    /\ FirstRequest
    /\ \E request \in FormRequests : ProcessUpload(r, request)

\* the first request is a metadata request
FirstMetadataUpload(r) ==
    /\ FirstRequest
    /\ \E request \in FormRequests : MetadataUpload(r, request)

\* one upload request, with any form, on the service after start-up
NextForm ==
    \E r \in Threads :
        \/ FirstProcessUpload(r)
        \/ ProcessVideo(r)
        \/ FirstMetadataUpload(r)
        \/ MetadataExtract(r)

SpecForm == Init /\ [][NextForm]_vars

\* the requests that put files into the processed folder
ProducingRequests ==
    {UploadRequest("process", "multipart/form-data", TRUE, f_a_mp4, EmptyDict),
     [endpoint |-> "script", is_json |-> TRUE, has_script |-> TRUE,
      script |-> [effect |-> "write", returncode |-> 0, hangs |-> FALSE]]}

\* the service with its downloads and with the periodic clean-up
NextCleanup ==
    \/ \E r \in Threads :
          \/ \E request \in ProducingRequests : ProcessUpload(r, request)
          \/ ProcessVideo(r)
          \/ \E request \in ProducingRequests : ScriptStart(r, request)
          \/ ScriptProcess(r)
          \/ ScriptFinish(r)
          \/ DownloadAny(r)
    \/ TimePasses
    \/ Cleanup

SpecCleanup == Init /\ [][NextCleanup]_vars

\* one metadata request, over every probe output
NextProbe ==
    \E r \in Threads :
        \/ FirstMetadataUpload(r)
        \/ MetadataProbe(r)

SpecProbe == Init /\ [][NextProbe]_vars

(* ------------------------------- claims -------------------------------- *)

\* the request answered last is a process request that got past validation
\* and for which the external transcoder was invoked
Transcoded ==
    /\ last.request.endpoint = "process"
    /\ last.hist.ffmpeg # <<>>

C3_DisallowedExtensionRejected ==
    LET fn == last.request.filename
        disallowed ==
            \/ \A i \in DOMAIN fn : fn[i] # "."
            \/ \E i \in DOMAIN fn :
                  /\ fn[i] = "."
                  /\ \A k \in DOMAIN fn : k > i => fn[k] # "."
                  /\ Lower(SubSeq(fn, i + 1, Len(fn))) \notin
                        {s_mp4, s_avi, s_mov, s_webm, s_mkv, s_flv, s_m4v, s_3gp}
    IN  (/\ last.request.endpoint \in {"process", "metadata"}
         /\ last.request.has_video
         /\ disallowed) =>
            /\ last.status = 400
            /\ ~last.hist.saved
            /\ uploads = {}
            /\ last.hist.probes = 0
            /\ last.hist.ffmpeg = <<>>

\* a process request that is valid but for its name a.mp4.txt was
\* answered 400
C3_Witness ==
    /\ last.request.endpoint = "process"
    /\ last.request.filename = f_a_mp4_txt
    /\ validate_request(last.request) = None
    /\ last.status = 400

\* C4: the response and the output file of a request are those it would
\* have had running alone: a script request is answered 200 exactly when
\* its own script wrote the output and exited 0 in time, and the video put
\* in the processed folder for a job is the one that job produced.
C4_RequestsIndependent ==
    /\ (last.request.endpoint = "script" /\ last.hist.script_written) =>
          LET script == last.request.script
              alone == IF script.hangs \/ script.returncode # 0
                          \/ script.effect # "write"
                       THEN 500 ELSE 200
          IN  /\ last.status = alone
              /\ last.status = 200 =>
                    processed[ProcessedVideoName(last.job)] = last.job
    /\ (last.request.endpoint = "process" /\ last.status = 200) =>
          processed[last.body.processed_file] = last.job

\* C5: the codec pair passed to the transcoder is the one of the table for
\* the request's output_format, for every value validation accepts: mp4
\* and mov libx264/aac, webm libvpx-vp9/libvorbis, avi libx264/mp3.
C5_CodecPairOfFormat ==
    Transcoded =>
        LET format == Lower(FormGet(last.request.form, "output_format", s_mp4))
            args == last.hist.ffmpeg[1].args
            pair == <<Get(args, "vcodec", "none"), Get(args, "acodec", "none")>>
        IN  /\ format \in {s_mp4, s_mov} => pair = <<"libx264", "aac">>
            /\ format = s_webm => pair = <<"libvpx-vp9", "libvorbis">>
            /\ format = s_avi => pair = <<"libx264", "mp3">>

\* C6: with compress false, the (rate factor, speed preset) passed to the
\* transcoder is the quality table's entry for the request's quality (low
\* 28/fast, medium 23/medium, high 18/slow, ultra 15/veryslow; medium when
\* absent), and a higher tier has a lower rate factor and a slower preset.
C6_QualityPairOfTier ==
    LET slowness == [p \in {"fast", "medium", "slow", "veryslow"} |->
                        IF p = "fast" THEN 1 ELSE IF p = "medium" THEN 2
                        ELSE IF p = "slow" THEN 3 ELSE 4]
        tiers == <<s_low, s_medium, s_high, s_ultra>>
        expected == [q \in valid_qualities |->
                        IF q = s_low THEN <<28, "fast">>
                        ELSE IF q = s_medium THEN <<23, "medium">>
                        ELSE IF q = s_high THEN <<18, "slow">>
                        ELSE <<15, "veryslow">>]
    IN  /\ \A i \in 1 .. 3 :
              /\ quality_presets[tiers[i + 1]].crf < quality_presets[tiers[i]].crf
              /\ slowness[quality_presets[tiers[i + 1]].preset]
                    > slowness[quality_presets[tiers[i]].preset]
        /\ (Transcoded /\ ~ProcessingParams(last.request.form).compress) =>
              LET quality == Lower(FormGet(last.request.form, "quality", s_medium))
                  args == last.hist.ffmpeg[1].args
              IN  <<Get(args, "crf", -1), Get(args, "preset", "none")>>
                     = expected[quality]

\* C7: with compress true, the rate factor passed to the transcoder is the
\* rate factor of the request's quality tier plus 5, capped at 32, and the
\* speed preset passed is the fastest one, fast.
C7_CompressRelaxesRateFactor ==
    (/\ Transcoded
     /\ Lower(FormGet(last.request.form, "compress", s_false)) = s_true) =>
        LET quality == Lower(FormGet(last.request.form, "quality", s_medium))
            tier == IF quality = s_low THEN 28 ELSE IF quality = s_medium THEN 23
                    ELSE IF quality = s_high THEN 18 ELSE 15
            args == last.hist.ffmpeg[1].args
        IN  /\ Get(args, "crf", -1) = (IF tier + 5 > 32 THEN 32 ELSE tier + 5)
            /\ Get(args, "crf", -1) <= 32
            /\ Get(args, "preset", "none") = "fast"

\* C8: a scale filter is put into the transcoder invocation if and only if
\* the resolution field is present, with the dimensions of its tier (480p
\* 854:480, 720p 1280:720, 1080p 1920:1080, 1440p 2560:1440, 4k 3840:2160).
C8_ScaleFilterIffResolution ==
    Transcoded =>
        LET form == last.request.form
            filter == last.hist.ffmpeg[1].filter
            tier == Lower(form["resolution"])
        IN  /\ filter # <<>> <=> "resolution" \in DOMAIN form
            /\ "resolution" \in DOMAIN form =>
                  filter = <<IF tier = s_480p THEN "854:480"
                             ELSE IF tier = s_720p THEN "1280:720"
                             ELSE IF tier = s_1080p THEN "1920:1080"
                             ELSE IF tier = s_1440p THEN "2560:1440"
                             ELSE "3840:2160">>

\* C9: whatever way a script-execution request ends (success, script
\* failure, timeout), its script_<job_id>.sh file is gone from /tmp once
\* the response is sent.
C9_ScriptFileRemoved ==
    (last.request.endpoint = "script" /\ last.hist.script_written) =>
        ScriptFilename(last.job) \notin tmpScripts

\* what C10 promises of a rejected process request: 400, the error
\* envelope, nothing written, no tool invoked
C10_Rejected ==
    /\ last.status = 400
    /\ DOMAIN last.body = {"success", "error", "timestamp"}
    /\ last.body.success = FALSE
    /\ ~last.hist.saved
    /\ uploads = {}
    /\ DOMAIN processed = {}
    /\ last.hist.probes = 0
    /\ last.hist.ffmpeg = <<>>

\* C10 as stated: a process request of which output_format, quality or
\* resolution is present with a value outside the accepted set is answered
\* 400 with the error envelope, writes nothing and invokes no tool.
C10_ValueOutsideSetRejected ==
    LET form == last.request.form
        outside(field, accepted) ==
            field \in DOMAIN form /\ form[field] \notin accepted
    IN  (/\ last.request.endpoint = "process"
         /\ \/ outside("output_format", {s_mp4, s_avi, s_mov, s_webm, s_mkv})
            \/ outside("quality", {s_low, s_medium, s_high, s_ultra})
            \/ outside("resolution", {s_480p, s_720p, s_1080p, s_1440p, s_4k}))
        => C10_Rejected

\* C10 as amended: a process request of which output_format, quality or
\* resolution is present with a value that, lower-cased, is outside the
\* accepted set is answered 400 with the error envelope, writes nothing and
\* invokes no tool.
C10_LoweredValueOutsideSetRejected ==
    LET form == last.request.form
        outside(field, accepted) ==
            field \in DOMAIN form /\ Lower(form[field]) \notin accepted
    IN  (/\ last.request.endpoint = "process"
         /\ \/ outside("output_format", {s_mp4, s_avi, s_mov, s_webm, s_mkv})
            \/ outside("quality", {s_low, s_medium, s_high, s_ultra})
            \/ outside("resolution", {s_480p, s_720p, s_1080p, s_1440p, s_4k}))
        => C10_Rejected

\* a process request with an allowed file and quality "best" was answered
\* 400
C10_Witness ==
    /\ last.request.endpoint = "process"
    /\ last.request.content_type = "multipart/form-data"
    /\ last.request.has_video
    /\ last.request.filename = f_a_mp4
    /\ DOMAIN last.request.form = {"quality"}
    /\ last.request.form["quality"] = <<"b","e","s","t">>
    /\ last.status = 400

\* C11: GET /download/<name> answers 404 with the error envelope for a
\* name that has no file in the processed folder when it is asked, and
\* sends the file as an attachment for a name that has one; so a name
\* served once is answered 404 once cleanup_old_files removed its file.
C11_DownloadFollowsFolder ==
    [][(last' # last /\ last'.request.endpoint = "download") =>
          LET name == last'.request.filename IN
          IF name \in DOMAIN processed
          THEN /\ last'.status = 200
               /\ last'.body.attachment = name
               /\ last'.body.content = processed[name]
          ELSE /\ last'.status = 404
               /\ DOMAIN last'.body = {"success", "error", "timestamp"}
               /\ last'.body.success = FALSE]_vars

\* a name that was served is answered 404 after the clean-up removed it
C11_Witness ==
    /\ last.request.endpoint = "download"
    /\ last.status = 404
    /\ last.request.filename \in served
    /\ last.request.filename \notin DOMAIN processed

C13_OwnScriptProducedVideo ==
    (last.request.endpoint = "script" /\ last.status = 200) =>
        /\ last.request.script.effect = "write"
        /\ processed[ProcessedVideoName(last.job)] = last.job

\* C13, the sequential case: the requests before were all answered when the
\* script started, its script wrote nothing, and it was answered 200 with
\* the video an earlier job left
C13_StaleVideoServed ==
    /\ last.request.endpoint = "script"
    /\ last.status = 200
    /\ last.request.script.effect = "none"
    /\ last.job = 2
    /\ processed[ProcessedVideoName(2)] = 1
    /\ ProcessedVideoName(1) \in DOMAIN processed

\* C14: a process request whose upload was saved and whose processing then
\* failed, at the probe of the original or in the transcoder, is answered
\* 500 with success false and its job id, and its original is still in the
\* upload folder; the original of a saved upload is gone only after a 200.
C14_FailureKeepsOriginal ==
    (/\ last.request.endpoint = "process"
     /\ last.hist.saved
     /\ last.hist.probes > 0) =>
        LET original == UniqueFilename(last.job, last.request.filename)
        IN  /\ last.status # 200 =>
                  /\ last.status = 500
                  /\ last.body.success = FALSE
                  /\ last.body.job_id = last.job
                  /\ original \in uploads
            /\ original \notin uploads => last.status = 200

\* the transcoder failed on a saved upload
C14_Witness ==
    /\ last.request.endpoint = "process"
    /\ last.hist.saved
    /\ last.hist.ffmpeg # <<>>
    /\ last.status = 500
    /\ last.body.error = "Video processing failed"
    /\ UniqueFilename(last.job, last.request.filename) \in uploads

\* C15: the step that answers a metadata request whose upload was saved
\* answers 200 or 500, leaves no file of that request in the upload folder
\* and leaves the processed folder as it was; the step that saves the upload
\* leaves the processed folder as it was too.
C15_MetadataLeavesNoFile ==
    [][\A r \in Threads :
          /\ (/\ pc[r] = "saved"
              /\ req[r].endpoint = "metadata"
              /\ pc'[r] = "idle") =>
                /\ last'.job = job[r]
                /\ last'.hist.saved
                /\ \/ last'.status = 200
                   \/ /\ last'.status = 500
                      /\ last'.body.error = "Failed to extract video metadata"
                /\ FilesOf(uploads', job[r]) = {}
                /\ processed' = processed
          /\ (/\ pc[r] = "idle"
              /\ pc'[r] = "saved"
              /\ req'[r].endpoint = "metadata") =>
                processed' = processed]_vars

\* a metadata request was answered 500 after its probe failed, and nothing
\* of it is in either folder
C15_Witness ==
    /\ last.request.endpoint = "metadata"
    /\ last.hist.saved
    /\ last.status = 500
    /\ last.body.error = "Failed to extract video metadata"
    /\ FilesOf(uploads, last.job) = {}
    /\ FilesOf(DOMAIN processed, last.job) = {}
    /\ uploads # {}

====
